---- MODULE Spec2Model ----
(***************************************************************************)
(* Model of the BCM role monitor daemon                                    *)
(* (src/automation/role-monitor/bcm_role_monitor.py).                      *)
(*                                                                         *)
(* One daemon process walks through its constructor, load_state and the    *)
(* phases of monitor_loop; the environment changes the status of the       *)
(* exporter services, mounts and unmounts the Prometheus targets           *)
(* directory, interrupts and restarts the daemon, and a concurrent reader  *)
(* reads the descriptor file.  A file is absent, complete or truncated.    *)
(***************************************************************************)
EXTENDS Integers, Sequences, FiniteSets, TLC

----------------------------------------------------------------------------
(* Bounds of the model *)

MaxTime == 4
MaxUnreliable == 1
CfgMaxRetries == 2
CfgRetryInterval == 2
CfgCheckInterval == 1

----------------------------------------------------------------------------
(* Python values *)

NoTime == 0 - 1

RoleValues == {"True", "False", "None"}

PyBool(b) == IF b THEN "True" ELSE "False"

hostname == "dgx01"

services == <<"cgroup_exporter", "node_exporter", "nvidia_gpu_exporter">>

ServiceSet == {services[i] : i \in 1..Len(services)}

----------------------------------------------------------------------------
(* Configuration: load_config *)

default_config ==
    [bcm_headnodes |-> <<>>,
     bcm_port |-> 8081,
     check_interval |-> 60,
     retry_interval |-> 600,
     max_retries |-> 3,
     node_exporter_port |-> 9100,
     cgroup_exporter_port |-> 9306,
     nvidia_gpu_exporter_port |-> 9445,
     cluster_name |-> "slurm"]

\* "bcm_headnodes": ["bcmhead1", "bcmhead2"]
Headnodes == <<"bcmhead1", "bcmhead2">>

\* A config file as the installer leaves it: some keys set, the others absent.
InstalledConfig ==
    [bcm_headnodes |-> Headnodes,
     check_interval |-> CfgCheckInterval,
     retry_interval |-> CfgRetryInterval,
     max_retries |-> CfgMaxRetries]

ConfigFileAbsent == [st |-> "absent"]
ConfigFileCorrupt == [st |-> "corrupt"]
ConfigFileOf(data) == [st |-> "ok", data |-> data]

InitialConfigFiles ==
    {ConfigFileAbsent, ConfigFileCorrupt, ConfigFileOf(InstalledConfig)}

\* for key, value in default_config.items(): if key not in config: ...
MergeDefaults(data) ==
    [k \in DOMAIN data \cup DOMAIN default_config |->
        IF k \in DOMAIN data THEN data[k] ELSE default_config[k]]

NoConfig == [st |-> "unset"]

----------------------------------------------------------------------------
(* Retry bookkeeping: handle_service_retry, manage_services *)

ZeroRetry ==
    [attempts |-> 0, last_attempt |-> NoTime, next_attempt |-> NoTime,
     failed_permanently |-> FALSE]

EmptyRetryState == [s \in {} |-> ZeroRetry]

SetEntry_shared(rs, s, info) == [x \in DOMAIN rs \cup {s} |-> info]

\* self.retry_state[service] = {...}
SetEntry(rs, s, info) ==
    [x \in DOMAIN rs \cup {s} |-> IF x = s THEN info ELSE rs[x]]

\* if service not in self.retry_state: self.retry_state[service] = {...}
EnsureEntry(rs, s) == IF s \in DOMAIN rs THEN rs ELSE SetEntry(rs, s, ZeroRetry)

ResetIfPresent_kept(rs, s) == rs

\* if service in self.retry_state: self.retry_state[service] = {...zero...}
ResetIfPresent(rs, s) == IF s \in DOMAIN rs THEN SetEntry(rs, s, ZeroRetry) ELSE rs

PermanentlyFailed_ignored(info) == FALSE

\* if retry_info['failed_permanently']
PermanentlyFailed(info) == info.failed_permanently

NotTimeYet_never(info, t) == FALSE

NotTimeYet_forever(info, t) == info.next_attempt # NoTime

\* if retry_info['next_attempt'] and now < retry_info['next_attempt']
NotTimeYet(info, t) == info.next_attempt # NoTime /\ t < info.next_attempt

RetriesExhausted_late(attempts, cfg) == attempts > cfg.max_retries

\* if retry_info['attempts'] >= self.config['max_retries']
RetriesExhausted(attempts, cfg) == attempts >= cfg.max_retries

AfterFailedStart_uncounted(info, t, cfg) ==
    [info EXCEPT !.last_attempt = t, !.next_attempt = t + cfg.retry_interval]

AfterFailedStart_countdown(info, t, cfg) ==
    [info EXCEPT !.attempts = info.attempts - 1, !.last_attempt = t,
                 !.next_attempt = t + cfg.retry_interval]

\* the "Failed - update retry state" branch
AfterFailedStart(info, t, cfg) ==
    LET a == info.attempts + 1 IN
    IF RetriesExhausted(a, cfg)
    THEN [info EXCEPT !.attempts = a, !.last_attempt = t,
                      !.failed_permanently = TRUE]
    ELSE [info EXCEPT !.attempts = a, !.last_attempt = t,
                      !.next_attempt = t + cfg.retry_interval]

\* start_service: the command succeeded and the unit is active after the
\* settle delay
StartOutcomes == {"cmd_failed", "inactive_after", "active_after"}

StartResult_unverified(outcome) == outcome # "cmd_failed"

\* if result.returncode == 0: time.sleep(2); if self.get_service_status(service)
StartResult(outcome) == outcome = "active_after"

StopOutcomes == {"stopped", "stop_failed"}

----------------------------------------------------------------------------
(* Files.  A file is absent, holds a complete JSON document, or is        *)
(* truncated: it holds a proper prefix of a document (possibly nothing),  *)
(* which is what open(path, 'w') followed by an unfinished json.dump      *)
(* leaves.                                                                *)

NoData == <<>>
AbsentFile == [st |-> "absent", data |-> NoData]
TruncatedFile == [st |-> "truncated", data |-> NoData]
CompleteFile(doc) == [st |-> "complete", data |-> doc]

\* target_file = os.path.join(target_base_dir, f'{self.hostname}.json')
target_file == "dgx01.json"
TempFile_inplace(target) == target

\* temp_file = f"{target_file}.tmp"
TempFile(target) == IF target = "dgx01.json" THEN "dgx01.json.tmp" ELSE "other.tmp"
state_file == "dgx01_state.json"

Paths == {target_file, "dgx01.json.tmp", state_file}

----------------------------------------------------------------------------
(* JSON values and the state file: save_state, load_state *)

JNull == [t |-> "null"]
JBool(b) == [t |-> "bool", b |-> b]
JInt(n) == [t |-> "int", n |-> n]
JStr(x) == [t |-> "str", s |-> x]
\* a datetime object: json has no encoding for it and raises TypeError
PyDatetime(n) == [t |-> "datetime", n |-> n]

\* None becomes null; a datetime stays a datetime object
EncodeTime(v) == IF v = NoTime THEN JNull ELSE PyDatetime(v)
DecodeTime(j) == IF j = JNull THEN NoTime ELSE j.n
Encodable(j) == j.t # "datetime"

EncodeEntry(info) ==
    [attempts |-> JInt(info.attempts),
     last_attempt |-> EncodeTime(info.last_attempt),
     next_attempt |-> EncodeTime(info.next_attempt),
     failed_permanently |-> JBool(info.failed_permanently)]

DecodeEntry(j) ==
    [attempts |-> j.attempts.n,
     last_attempt |-> DecodeTime(j.last_attempt),
     next_attempt |-> DecodeTime(j.next_attempt),
     failed_permanently |-> j.failed_permanently.b]

EntryEncodable(j) ==
    /\ Encodable(j.attempts)
    /\ Encodable(j.last_attempt)
    /\ Encodable(j.next_attempt)
    /\ Encodable(j.failed_permanently)

\* datetime.now().isoformat(): a string; nothing reads it back, so the model
\* keeps only that it is one
isoformat(t) == "iso-timestamp"

\* current_state = {'has_slurmclient_role': ..., 'last_check': ..., 'retry_state': ...}
current_state(role, t, rs) ==
    [has_slurmclient_role |-> JBool(role = "True"),
     last_check |-> JStr(isoformat(t)),
     retry_state |-> [s \in DOMAIN rs |-> EncodeEntry(rs[s])]]

\* json.dump(state, f, indent=2) into the file opened with 'w': it writes piece
\* by piece and raises at the first value it cannot encode, so the file ends
\* complete only if every value can be encoded
DumpState(obj) ==
    IF \A s \in DOMAIN obj.retry_state : EntryEncodable(obj.retry_state[s])
    THEN CompleteFile(obj)
    ELSE TruncatedFile

EmptyDict == [k \in {} |-> JNull]

DictGet(d, k, default) == IF k \in DOMAIN d THEN d[k] ELSE default

\* json.load of the state file: only a complete document parses
ParseState(f) ==
    IF f.st = "complete"
    THEN [ok |-> TRUE,
          obj |-> [has_slurmclient_role |-> PyBool(f.data.has_slurmclient_role.b),
                   last_check |-> f.data.last_check.s,
                   retry_state |->
                      [s \in DOMAIN f.data.retry_state |->
                          DecodeEntry(f.data.retry_state[s])]]]
    ELSE [ok |-> FALSE, obj |-> EmptyDict]

load_state_empty(f) == EmptyDict

\* load_state: {} unless the file exists and parses
load_state(f) ==
    IF f.st # "absent" /\ ParseState(f).ok THEN ParseState(f).obj ELSE EmptyDict

----------------------------------------------------------------------------
(* The descriptor file: _create_prometheus_target *)

exporters_no_gpu(cfg) ==
    <<[job |-> "node_exporter", port |-> cfg.node_exporter_port],
      [job |-> "cgroup_exporter", port |-> cfg.cgroup_exporter_port]>>

exporters(cfg) ==
    <<[job |-> "node_exporter", port |-> cfg.node_exporter_port],
      [job |-> "cgroup_exporter", port |-> cfg.cgroup_exporter_port],
      [job |-> "gpu_exporter", port |-> cfg.nvidia_gpu_exporter_port]>>

target_data(cfg) ==
    [i \in 1..Len(exporters(cfg)) |->
        [targets |-> <<[host |-> hostname, port |-> exporters(cfg)[i].port]>>,
         labels |-> [job |-> exporters(cfg)[i].job,
                     cluster |-> cfg.cluster_name,
                     hostname |-> hostname]]]

----------------------------------------------------------------------------
(* The control plane: test_bcm_connectivity, check_slurmclient_role *)

ProbeResponses == {"http200", "non200", "error"}

\* "No BCM headnodes configured", "BCM certificates not found", else the first
\* headnode that answers HTTP 200
test_bcm_connectivity(headnodes, certs_exist, resp) ==
    /\ Len(headnodes) > 0
    /\ certs_exist
    /\ \E i \in 1..Len(headnodes) : resp[i] = "http200"

Lower(role) ==
    CASE role = "SlurmClient" -> "slurmclient"
      [] role = "SLURMCLIENT-EXTRA" -> "slurmclient-extra"
      [] OTHER -> role

Device(h, roles) == [hostname |-> h, roles |-> roles]

Inventories ==
    {<<Device(hostname, <<"slurmclient">>)>>,
     <<Device("dgx02", <<"slurmclient">>), Device(hostname, <<"other", "SlurmClient">>)>>,
     <<Device(hostname, <<"SLURMCLIENT-EXTRA">>)>>,
     <<Device(hostname, <<>>)>>,
     <<Device("DGX01", <<"slurmclient">>), Device("dgx02", <<"slurmclient">>)>>,
     <<>>}

RoleResponses ==
    {[kind |-> "error", devices |-> <<>>],
     [kind |-> "non200", devices |-> <<>>],
     [kind |-> "badjson", devices |-> <<>>]}
    \cup {[kind |-> "ok", devices |-> inv] : inv \in Inventories}

\* 'slurmclient' in [role.lower() for role in roles]
HasSlurmclient(roles) ==
    \E i \in 1..Len(roles) : Lower(roles[i]) = "slurmclient"

Matches_any(devices) == 1..Len(devices)

\* for device in devices: if device.get('hostname') == self.hostname
Matches(devices) == {i \in 1..Len(devices) : devices[i].hostname = hostname}

FirstMatch(devices) ==
    CHOOSE i \in Matches(devices) : \A j \in Matches(devices) : i <= j

\* for headnode in headnodes: ... return has_slurmclient / continue; return None
RECURSIVE CheckFrom(_, _)
CheckFrom(resp, i) ==
    IF i > Len(resp) THEN "None"
    ELSE IF resp[i].kind = "ok" /\ Matches(resp[i].devices) # {}
         THEN PyBool(HasSlurmclient(resp[i].devices[FirstMatch(resp[i].devices)].roles))
         ELSE CheckFrom(resp, i + 1)

check_slurmclient_role(resp) == CheckFrom(resp, 1)

\* bcm_role_monitor_pythoncm.py: 'slurmclient' in role_name.lower(), a
\* substring test on the lower-cased name
ContainsSlurmclient(role) == Lower(role) \in {"slurmclient", "slurmclient-extra"}

\* _check_role_via_api: the first node whose hostname is the local one, None
\* if there is none; then any role whose name contains 'slurmclient'
check_role_via_api(nodes) ==
    IF Matches(nodes) = {} THEN "None"
    ELSE LET roles == nodes[FirstMatch(nodes)].roles
         IN PyBool(\E i \in 1..Len(roles) : ContainsSlurmclient(roles[i]))

----------------------------------------------------------------------------
(* One iteration of manage_services *)

Outcome(rs, run, call) == [retry_state |-> rs, running |-> run, call |-> call]

Truthy_any(role) == TRUE

\* Python truthiness of should_run / should_be_scraped
Truthy(role) == role = "True"

\* status_again: the second status query, made only for a permanently failed
\* service; start_outcome: what systemctl start and the re-query give
handle_service_retry(rs, s, t, cfg, status_again, start_outcome) ==
    LET rs1 == EnsureEntry(rs, s)
        info == rs1[s]
    IN IF PermanentlyFailed(info)
       THEN Outcome(IF status_again THEN SetEntry(rs1, s, ZeroRetry) ELSE rs1,
                    status_again, "none")
       ELSE IF NotTimeYet(info, t)
       THEN Outcome(rs1, FALSE, "none")
       ELSE IF StartResult(start_outcome)
       THEN Outcome(SetEntry(rs1, s, ZeroRetry), TRUE, "start")
       ELSE Outcome(SetEntry(rs1, s, AfterFailedStart(info, t, cfg)), FALSE, "start")

manage_service(rs, s, should_run, is_running, t, cfg, status_again, start_outcome, stop_outcome) ==
    IF should_run
    THEN IF ~is_running
         THEN handle_service_retry(rs, s, t, cfg, status_again, start_outcome)
         ELSE Outcome(ResetIfPresent(rs, s), TRUE, "none")
    ELSE IF is_running
         THEN Outcome(ResetIfPresent(rs, s), stop_outcome # "stopped", "stop")
         ELSE Outcome(ResetIfPresent(rs, s), FALSE, "none")

\* for service in self.services: one whole pass, from position i on; inputs
\* holds, per service, what the service manager answers during the pass
RECURSIVE PassFrom(_, _, _, _, _, _)
PassFrom(acc, should_run, t, cfg, inputs, i) ==
    IF i > Len(services) THEN acc
    ELSE LET s == services[i]
             r == manage_service(acc.retry_state, s, should_run, inputs[s].is_running,
                                 t, cfg, inputs[s].status_again,
                                 inputs[s].start_outcome, inputs[s].stop_outcome)
         IN PassFrom([retry_state |-> r.retry_state,
                      call |-> [acc.call EXCEPT ![s] = r.call],
                      running |-> [acc.running EXCEPT ![s] = r.running]],
                     should_run, t, cfg, inputs, i + 1)

manage_services(rs, should_run, t, cfg, inputs) ==
    PassFrom([retry_state |-> rs,
              call |-> [s \in ServiceSet |-> "none"],
              running |-> [s \in ServiceSet |-> inputs[s].is_running]],
             should_run, t, cfg, inputs, 1)

----------------------------------------------------------------------------
(* State *)

VARIABLES
    pc,                    \* where the daemon process is
    now,                   \* the clock
    configFile,            \* the config file on disk
    config,                \* self.config
    retry_state,           \* self.retry_state
    previous_role_status,  \* monitor_loop's local
    has_slurmclient_role,  \* monitor_loop's local
    svcIdx,                \* position of manage_services in self.services
    running,               \* which units systemd has active
    dirExists,             \* whether the Prometheus targets directory exists
    unreliable,            \* the units whose start or stop can fail and that change on their own
    files,                 \* descriptor file, its temp file, state file
    readerSaw,             \* what the reader of the descriptor file last read
    cycle,                 \* how the current cycle went so far
    pub,                   \* what manage_prometheus_targets did in this cycle
    saved,                 \* what save_state did in this cycle
    calls,                 \* systemctl start/stop calls of this cycle, per service
    started,               \* start calls since the service was last seen running
    pfUnobserved,          \* failed permanently in this run and not seen running since
    pfLatched,             \* same, also cleared by a cycle with the role inactive
    pfDurable,             \* as pfLatched, but kept when the daemon stops
    resetFrom,             \* the attempts a retry state had when this cycle reset it to zero
    stopFailures,          \* stop calls in a row, one per cycle, that left the unit running
    reconciled,            \* the services manage_services has handled in this cycle
    apiResponses,          \* what the headnodes answer to one call of check_slurmclient_role
    roleResult,            \* what that call returned
    apiResult,             \* what _check_role_via_api returned for the first of these inventories
    role_change_logged,    \* "Role change detected" was logged in this cycle
    trial,                 \* the inputs of two passes of manage_services
    trialResult            \* what the two passes did

vars ==
    <<pc, now, configFile, config, retry_state, previous_role_status,
      has_slurmclient_role, svcIdx, running, dirExists, unreliable, files,
      readerSaw, cycle, pub, saved, calls, started, pfUnobserved, pfLatched, pfDurable,
      resetFrom, stopFailures, reconciled, apiResponses, roleResult, apiResult,
      role_change_logged, trial, trialResult>>

memory == <<config, retry_state, previous_role_status, has_slurmclient_role, svcIdx>>
history ==
    <<calls, started, pfUnobserved, pfLatched, pfDurable, resetFrom, stopFailures,
      reconciled, role_change_logged>>
aside == <<readerSaw, apiResponses, roleResult, apiResult, trial, trialResult>>
outcomes == <<cycle, pub, saved>>
world == <<running, dirExists, configFile, unreliable>>

NotRead == [st |-> "not read", data |-> NoData]

NoCalls == [s \in ServiceSet |-> <<>>]
AllFalse == [s \in ServiceSet |-> FALSE]
AllZero == [s \in ServiceSet |-> 0]

InitDaemon ==
    /\ pc = "boot"
    /\ now = 0
    /\ configFile \in InitialConfigFiles
    /\ config = NoConfig
    /\ retry_state = EmptyRetryState
    /\ previous_role_status = "None"
    /\ has_slurmclient_role = "None"
    /\ svcIdx = 1
    /\ running = AllFalse
    /\ dirExists \in BOOLEAN
    /\ unreliable = {services[i] : i \in 1..MaxUnreliable}
    /\ files = [p \in Paths |-> AbsentFile]
    /\ readerSaw = NotRead
    /\ cycle = "none"
    /\ pub = "none"
    /\ saved = "none"
    /\ calls = NoCalls
    /\ started = AllZero
    /\ pfUnobserved = AllFalse
    /\ pfLatched = AllFalse
    /\ pfDurable = AllFalse
    /\ resetFrom = AllZero
    /\ stopFailures = AllZero
    /\ reconciled = {}
    /\ role_change_logged = FALSE

NoResponses == <<>>
NoTrial == <<>>

\* the daemon alone: no separate call of the role check or of manage_services
NothingAside ==
    /\ apiResponses = NoResponses
    /\ roleResult = "unset"
    /\ apiResult = "unset"
    /\ trial = NoTrial
    /\ trialResult = NoTrial

Init ==
    /\ InitDaemon
    /\ NothingAside

----------------------------------------------------------------------------
(* __init__ and load_config *)

\* __init__ calls load_config (line 34) before setup_logging (line 46), so
\* self.logger does not exist while load_config runs
LoggerDuringLoadConfig == FALSE

\* config file present and parseable: merged with the defaults
ConstructOk ==
    /\ pc = "boot"
    /\ configFile.st = "ok"
    /\ config' = MergeDefaults(configFile.data)
    /\ retry_state' = EmptyRetryState
    /\ pc' = "load"
    /\ UNCHANGED <<now, previous_role_status, has_slurmclient_role, svcIdx,
                   world, files, aside, outcomes, history>>

\* config file absent: the default file is written, then the log call
ConstructCreatesDefault ==
    /\ pc = "boot"
    /\ configFile.st = "absent"
    /\ configFile' = ConfigFileOf(default_config)
    /\ IF LoggerDuringLoadConfig
       THEN /\ config' = default_config
            /\ pc' = "load"
       ELSE /\ config' = config
            /\ pc' = "crashed"
    /\ UNCHANGED <<now, retry_state, previous_role_status, has_slurmclient_role,
                   svcIdx, running, dirExists, unreliable, files, aside, outcomes,
                   history>>

\* config file unparseable: the except branch logs the error
ConstructCorrupt ==
    /\ pc = "boot"
    /\ configFile.st = "corrupt"
    /\ IF LoggerDuringLoadConfig
       THEN /\ config' = default_config
            /\ pc' = "load"
       ELSE /\ config' = config
            /\ pc' = "crashed"
    /\ UNCHANGED <<now, retry_state, previous_role_status, has_slurmclient_role,
                   svcIdx, world, files, aside, outcomes, history>>

----------------------------------------------------------------------------
(* monitor_loop *)

\* previous_state = self.load_state(); previous_state.get('has_slurmclient_role')
LoadState ==
    /\ pc = "load"
    /\ previous_role_status' =
           DictGet(load_state(files[state_file]), "has_slurmclient_role", "None")
    /\ pc' = "probe"
    /\ cycle' = "running"
    /\ UNCHANGED <<now, config, retry_state, has_slurmclient_role, svcIdx,
                   world, files, aside, pub, saved, history>>

\* what test_bcm_connectivity can return, over the certificates being there or
\* not and every answer of the headnodes
ProbeResults(headnodes) ==
    {test_bcm_connectivity(headnodes, certs_exist, resp) :
        certs_exist \in BOOLEAN, resp \in [1..Len(headnodes) -> ProbeResponses]}

AfterProbe_goes_on(connected) == "resolve"

\* if not self.test_bcm_connectivity(): log, sleep, continue
AfterProbe(connected) == IF connected THEN "resolve" ELSE "sleep"

Probe ==
    /\ pc = "probe"
    /\ \E connected \in ProbeResults(config.bcm_headnodes) :
          /\ pc' = AfterProbe(connected)
          /\ cycle' = IF connected THEN cycle ELSE "probe_failed"
    /\ UNCHANGED <<now, memory, world, files, aside, pub, saved, history>>

RoleUnknown_coerced(role) == FALSE

\* if has_slurmclient_role is None
RoleUnknown(role) == role = "None"

RoleChanged_always(previous, role) == TRUE

\* if previous_role_status != has_slurmclient_role: "Role change detected"
RoleChanged(previous, role) == previous # role

\* what check_slurmclient_role can return, over every answer of the headnodes
RoleResults(headnodes) ==
    {check_slurmclient_role(resp) : resp \in [1..Len(headnodes) -> RoleResponses]}

Resolve ==
    /\ pc = "resolve"
    /\ \E role \in RoleResults(config.bcm_headnodes) :
          /\ has_slurmclient_role' = role
          /\ IF RoleUnknown(role)
             THEN /\ pc' = "sleep"
                  /\ cycle' = "role_unknown"
                  /\ role_change_logged' = role_change_logged
             ELSE /\ pc' = "services"
                  /\ cycle' = cycle
                  /\ role_change_logged' = RoleChanged(previous_role_status, role)
    /\ svcIdx' = 1
    /\ UNCHANGED <<now, config, retry_state, previous_role_status, world, files,
                   aside, pub, saved, calls, started, pfUnobserved, pfLatched,
                   pfDurable, resetFrom, stopFailures, reconciled>>

\* what the service manager can answer for service s: a reliable unit starts
\* and stops when told and does not change between two status queries
StatusAgain(s) == IF s \in unreliable THEN BOOLEAN ELSE {running[s]}
StartOutcomesOf(s) == IF s \in unreliable THEN StartOutcomes ELSE {"active_after"}
StopOutcomesOf(s) == IF s \in unreliable THEN StopOutcomes ELSE {"stopped"}

LastService_first(i) == i >= 1

\* for service in self.services: the loop ends after the last one
LastService(i) == i >= Len(services)

\* one iteration of the loop of manage_services
ManageService ==
    /\ pc = "services"
    /\ LET s == services[svcIdx]
           should_run == Truthy(has_slurmclient_role)
           is_running == running[s]
       IN \E r \in {manage_service(retry_state, s, should_run, is_running, now,
                                    config, status_again, start_outcome, stop_outcome) :
                         status_again \in StatusAgain(s),
                         start_outcome \in StartOutcomesOf(s),
                         stop_outcome \in StopOutcomesOf(s)} :
          LET seen == is_running \/ (r.call = "none" /\ r.running)
              becamePF == /\ r.call = "start"
                          /\ r.retry_state[s].failed_permanently
          IN /\ retry_state' = r.retry_state
             /\ running' = [running EXCEPT ![s] = r.running]
             /\ calls' = IF r.call = "none" THEN calls
                         ELSE [calls EXCEPT ![s] = Append(@, r.call)]
             /\ started' = [started EXCEPT ![s] =
                              IF r.call = "start"
                              THEN (IF r.running THEN 0 ELSE @ + 1)
                              ELSE IF seen \/ ~should_run THEN 0 ELSE @]
             /\ pfUnobserved' = [pfUnobserved EXCEPT ![s] =
                              IF becamePF THEN TRUE
                              ELSE IF seen \/ r.running THEN FALSE ELSE @]
             /\ pfLatched' = [pfLatched EXCEPT ![s] =
                              IF becamePF THEN TRUE
                              ELSE IF seen \/ r.running \/ ~should_run THEN FALSE
                              ELSE @]
             /\ pfDurable' = [pfDurable EXCEPT ![s] =
                              IF becamePF THEN TRUE
                              ELSE IF seen \/ r.running \/ ~should_run THEN FALSE
                              ELSE @]
             /\ resetFrom' = [resetFrom EXCEPT ![s] =
                              IF s \in DOMAIN retry_state
                                 /\ r.retry_state[s].attempts = 0
                              THEN retry_state[s].attempts
                              ELSE 0]
             /\ stopFailures' = [stopFailures EXCEPT ![s] =
                              IF r.call = "stop" /\ r.running THEN @ + 1 ELSE 0]
             /\ reconciled' = reconciled \cup {s}
    /\ IF LastService(svcIdx)
       THEN /\ svcIdx' = 1
            /\ pc' = "publish"
       ELSE /\ svcIdx' = svcIdx + 1
            /\ pc' = pc
    /\ UNCHANGED <<now, config, previous_role_status, has_slurmclient_role,
                   dirExists, configFile, unreliable, files, aside, outcomes,
                   role_change_logged>>

----------------------------------------------------------------------------
(* manage_prometheus_targets *)

\* json.dump(target_data, f, indent=2)
DescriptorDoc(cfg) == CompleteFile(target_data(cfg))

\* outcome of a file operation: done, or an OSError
IoOutcomes == {"ok", "oserror"}

\* if not os.path.exists(target_base_dir): warning, return
PublishCheck ==
    /\ pc = "publish"
    /\ IF ~dirExists
       THEN /\ pub' = "no_dir"
            /\ pc' = "save"
       ELSE /\ pub' = pub
            /\ pc' = IF Truthy(has_slurmclient_role) THEN "pub_open" ELSE "pub_remove"
    /\ UNCHANGED <<now, memory, world, files, aside, cycle, saved, history>>

\* with open(temp_file, 'w') as f: the file is created or truncated
PubOpen ==
    /\ pc = "pub_open"
    /\ \E io \in IoOutcomes :
          IF io = "ok"
          THEN /\ files' = [files EXCEPT ![TempFile(target_file)] = TruncatedFile]
               /\ pub' = pub
               /\ pc' = "pub_dump"
          ELSE /\ files' = files
               /\ pub' = "error"
               /\ pc' = "save"
    /\ UNCHANGED <<now, memory, world, aside, cycle, saved, history>>

\* json.dump(target_data, f, indent=2) and the close of the with block
PubDump ==
    /\ pc = "pub_dump"
    /\ \E io \in IoOutcomes :
          IF io = "ok"
          THEN /\ files' = [files EXCEPT ![TempFile(target_file)] =
                               DescriptorDoc(config)]
               /\ pub' = pub
               /\ pc' = "pub_rename"
          ELSE /\ files' = files
               /\ pub' = "error"
               /\ pc' = "save"
    /\ UNCHANGED <<now, memory, world, aside, cycle, saved, history>>

Rename_lost(fs, src, dst) == [fs EXCEPT ![src] = AbsentFile]

\* os.rename(src, dst): dst gets the content of src in one step
Rename(fs, src, dst) ==
    IF src = dst THEN fs
    ELSE [fs EXCEPT ![dst] = fs[src], ![src] = AbsentFile]

PubRename ==
    /\ pc = "pub_rename"
    /\ \E io \in IoOutcomes :
          IF io = "ok"
          THEN /\ files' = Rename(files, TempFile(target_file), target_file)
               /\ pub' = "done"
          ELSE /\ files' = files
               /\ pub' = "error"
    /\ pc' = "save"
    /\ UNCHANGED <<now, memory, world, aside, cycle, saved, history>>

PathExists_unchecked(f) == TRUE

\* os.path.exists(target_file)
PathExists(f) == f.st # "absent"

\* _remove_prometheus_target: if os.path.exists(target_file): os.remove(target_file)
PubRemove ==
    /\ pc = "pub_remove"
    /\ IF PathExists(files[target_file])
       THEN \E io \in IoOutcomes :
               IF io = "ok"
               THEN /\ files' = [files EXCEPT ![target_file] = AbsentFile]
                    /\ pub' = "done"
               ELSE /\ files' = files
                    /\ pub' = "error"
       ELSE /\ files' = files
            /\ pub' = "done"
    /\ pc' = "save"
    /\ UNCHANGED <<now, memory, world, aside, cycle, saved, history>>

----------------------------------------------------------------------------
(* save_state and the end of the cycle *)

\* the path save_state opens for writing: the state file itself
SavePath(path) == path

\* with open(self.state_file, 'w') as f: the state file is truncated in place
SaveOpen ==
    /\ pc = "save"
    /\ \E io \in IoOutcomes :
          IF io = "ok"
          THEN /\ files' = [files EXCEPT ![SavePath(state_file)] = TruncatedFile]
               /\ pc' = "save_dump"
               /\ UNCHANGED <<saved, cycle, previous_role_status>>
          ELSE /\ files' = files
               /\ saved' = "oserror"
               /\ cycle' = "completed"
               /\ previous_role_status' = has_slurmclient_role
               /\ pc' = "sleep"
    /\ UNCHANGED <<now, config, retry_state, has_slurmclient_role, svcIdx,
                   world, aside, pub, history>>

\* json.dump(state, f, indent=2) and the close of the with block; the
\* exception of a failed dump is caught and logged
SaveDump ==
    /\ pc = "save_dump"
    /\ \E io \in IoOutcomes :
          LET f == IF io = "ok"
                   THEN DumpState(current_state(has_slurmclient_role, now, retry_state))
                   ELSE TruncatedFile
          IN /\ files' = [files EXCEPT ![SavePath(state_file)] = f]
             /\ saved' = IF io # "ok" THEN "oserror"
                         ELSE IF f.st = "complete" THEN "ok" ELSE "typeerror"
    /\ cycle' = "completed"
    /\ previous_role_status' = has_slurmclient_role
    /\ pc' = "sleep"
    /\ UNCHANGED <<now, config, retry_state, has_slurmclient_role, svcIdx,
                   world, aside, pub, history>>

\* time.sleep(self.config['check_interval'])
Sleep ==
    /\ pc = "sleep"
    /\ now + config.check_interval <= MaxTime
    /\ now' = now + config.check_interval
    /\ pc' = "probe"
    /\ cycle' = "running"
    /\ pub' = "none"
    /\ saved' = "none"
    /\ calls' = NoCalls
    /\ resetFrom' = AllZero
    /\ reconciled' = {}
    /\ role_change_logged' = FALSE
    /\ UNCHANGED <<memory, world, files, aside, started, pfUnobserved, pfLatched,
                   pfDurable, stopFailures>>

----------------------------------------------------------------------------
(* Exceptions inside a cycle *)

\* where an exception strikes: in the calls that open the cycle, before the
\* cycle has acted on a unit or a file
CyclePcs == {"probe", "resolve"}

\* an exception that none of the called methods catches
Exceptions == {"RuntimeError"}

CaughtByLoop_never(e) == FALSE

\* except KeyboardInterrupt: break / except Exception as e: log, sleep
CaughtByLoop(e) == e # "KeyboardInterrupt"

\* except Exception as e: self.logger.error(...); the sleep follows
UnexpectedError ==
    /\ pc \in CyclePcs
    /\ \E e \in Exceptions :
          IF CaughtByLoop(e)
          THEN /\ pc' = "sleep"
               /\ cycle' = "exception"
          ELSE /\ pc' = "crashed"
               /\ cycle' = cycle
    /\ UNCHANGED <<now, memory, world, files, aside, pub, saved, history>>

----------------------------------------------------------------------------
(* Signals and restarts *)

LoopPcs ==
    {"load", "probe", "resolve", "services", "publish", "pub_open", "pub_dump",
     "pub_rename", "pub_remove", "save", "save_dump", "sleep"}

FilesAfterBreak_cleanup(fs) == [fs EXCEPT ![target_file] = AbsentFile]

\* except KeyboardInterrupt: log, break; monitor_loop and main end there, no
\* file is touched on the way out
FilesAfterBreak(fs) == fs

\* KeyboardInterrupt (or a kill): the loop ends where it is and the process
\* exits, so what it held in memory is gone; no file is written, no unit is
\* stopped; a file open for writing keeps what was written so far
Interrupt ==
    /\ pc \in LoopPcs
    /\ pc' = "stopped"
    /\ config' = NoConfig
    /\ retry_state' = EmptyRetryState
    /\ previous_role_status' = "None"
    /\ has_slurmclient_role' = "None"
    /\ svcIdx' = 1
    /\ cycle' = "none"
    /\ pub' = "none"
    /\ saved' = "none"
    /\ calls' = NoCalls
    /\ started' = AllZero
    /\ pfUnobserved' = AllFalse
    /\ pfLatched' = AllFalse
    /\ resetFrom' = AllZero
    /\ stopFailures' = AllZero
    /\ reconciled' = {}
    /\ role_change_logged' = FALSE
    /\ files' = FilesAfterBreak(files)
    /\ UNCHANGED <<now, world, aside, pfDurable>>

\* the service manager starts the daemon again, a moment later: a new process
Restart ==
    /\ pc \in {"stopped", "crashed"}
    /\ now + 1 <= MaxTime
    /\ now' = now + 1
    /\ pc' = "boot"
    /\ UNCHANGED <<memory, world, files, aside, outcomes, history>>

----------------------------------------------------------------------------
(* Environment *)

Idle == pc \in {"sleep", "stopped", "crashed", "boot"}

\* a unit is started, stopped, crashes or is restarted outside the daemon
ServiceChanges ==
    /\ Idle
    /\ \E s \in unreliable : running' = [running EXCEPT ![s] = ~@]
    /\ UNCHANGED <<pc, now, memory, dirExists, configFile, unreliable, files,
                   aside, outcomes, history>>

\* the shared targets directory is mounted or unmounted
DirChanges ==
    /\ Idle
    /\ dirExists' = ~dirExists
    /\ UNCHANGED <<pc, now, memory, running, configFile, unreliable, files,
                   aside, outcomes, history>>

\* the metrics collector reads <hostname>.json: one read, at any moment
\* between two steps of the daemon
ReaderReads ==
    /\ readerSaw = NotRead
    /\ readerSaw' = IF dirExists THEN files[target_file] ELSE AbsentFile
    /\ UNCHANGED <<pc, now, memory, world, files, outcomes, history, apiResponses,
                   roleResult, apiResult, trial, trialResult>>

\* the read is over and what it returned is dropped
ReaderDone ==
    /\ readerSaw # NotRead
    /\ readerSaw' = NotRead
    /\ UNCHANGED <<pc, now, memory, world, files, outcomes, history, apiResponses,
                   roleResult, apiResult, trial, trialResult>>

----------------------------------------------------------------------------

Next ==
    \/ ConstructOk
    \/ ConstructCreatesDefault
    \/ ConstructCorrupt
    \/ LoadState
    \/ Probe
    \/ Resolve
    \/ ManageService
    \/ PublishCheck
    \/ PubOpen
    \/ PubDump
    \/ PubRename
    \/ PubRemove
    \/ SaveOpen
    \/ SaveDump
    \/ Sleep
    \/ UnexpectedError
    \/ Interrupt
    \/ Restart
    \/ ServiceChanges
    \/ DirChanges

Spec == Init /\ [][Next]_vars

\* the daemon together with a reader of the descriptor file
NextWithReader ==
    \/ (readerSaw = NotRead /\ Next)
    \/ ReaderReads
    \/ ReaderDone

SpecReader == Init /\ [][NextWithReader]_vars

\* one call of check_slurmclient_role, over every answer of the headnodes
InitRole ==
    /\ InitDaemon
    /\ apiResponses \in [1..Len(Headnodes) -> RoleResponses]
    /\ roleResult = "unset"
    /\ apiResult = "unset"
    /\ trial = NoTrial
    /\ trialResult = NoTrial

CallCheckRole ==
    /\ roleResult = "unset"
    /\ roleResult' = check_slurmclient_role(apiResponses)
    /\ UNCHANGED <<pc, now, memory, world, files, outcomes, history, readerSaw,
                   apiResponses, apiResult, trial, trialResult>>

\* self.cluster.getAll('node'): the inventory of the head node the cluster
\* object is connected to, here the first one
ClusterNodes(resp) == resp[1].devices

\* one call of _check_role_via_api of the pythoncm variant
CallCheckRoleApi ==
    /\ apiResult = "unset"
    /\ apiResult' = check_role_via_api(ClusterNodes(apiResponses))
    /\ UNCHANGED <<pc, now, memory, world, files, outcomes, history, readerSaw,
                   apiResponses, roleResult, trial, trialResult>>

NextRole ==
    \/ CallCheckRole
    \/ CallCheckRoleApi

SpecRole == InitRole /\ [][NextRole]_vars

----------------------------------------------------------------------------
(* A daemon that is left running *)

\* the daemon is started once, with its config file and the targets directory
\* in place
InitLive ==
    /\ InitDaemon
    /\ NothingAside
    /\ configFile = ConfigFileOf(InstalledConfig)
    /\ dirExists

\* the steps of the daemon process: the loop body runs on, statement after
\* statement, and every call it makes returns
DaemonStep ==
    \/ ConstructOk
    \/ LoadState
    \/ Probe
    \/ Resolve
    \/ ManageService
    \/ PublishCheck
    \/ PubOpen
    \/ PubDump
    \/ PubRename
    \/ PubRemove
    \/ SaveOpen
    \/ SaveDump
    \/ Sleep

NextLive ==
    \/ DaemonStep
    \/ ServiceChanges

SpecLive == InitLive /\ [][NextLive]_vars /\ WF_vars(DaemonStep)

----------------------------------------------------------------------------
(* Two passes of manage_services side by side *)

InstalledCfg == MergeDefaults(InstalledConfig)

\* the retry state of a service after one failed start at time 0, and after
\* as many failed starts, retry_interval apart, as make it permanently failed
PendingEntry == AfterFailedStart(ZeroRetry, 0, InstalledCfg)

RECURSIVE FailUntilGivenUp(_, _)
FailUntilGivenUp(info, t) ==
    IF info.failed_permanently THEN info
    ELSE FailUntilGivenUp(AfterFailedStart(info, t, InstalledCfg),
                          t + InstalledCfg.retry_interval)

GivenUpEntry == FailUntilGivenUp(ZeroRetry, 0)

NoEntry == [attempts |-> 0, last_attempt |-> NoTime, next_attempt |-> NoTime,
            failed_permanently |-> FALSE, absent |-> TRUE]

Profile(entry, is_running, status_again, start_outcome, stop_outcome) ==
    [entry |-> entry, is_running |-> is_running, status_again |-> status_again,
     start_outcome |-> start_outcome, stop_outcome |-> stop_outcome]

\* a service going into a pass: its retry state, whether the unit is active,
\* and what a start, a stop and a second status query would give
Profiles ==
    {Profile(NoEntry, FALSE, FALSE, "inactive_after", "stopped"),
     Profile(NoEntry, FALSE, FALSE, "active_after", "stopped"),
     Profile(PendingEntry, FALSE, FALSE, "cmd_failed", "stopped"),
     Profile(GivenUpEntry, FALSE, FALSE, "cmd_failed", "stopped"),
     Profile(GivenUpEntry, FALSE, TRUE, "active_after", "stopped"),
     Profile(PendingEntry, TRUE, TRUE, "active_after", "stop_failed"),
     Profile(ZeroRetry, TRUE, TRUE, "active_after", "stopped")}

\* a pass one second before the pending retry is due, and one when it is due
TrialTimes == {PendingEntry.last_attempt + InstalledCfg.retry_interval - 1,
               PendingEntry.last_attempt + InstalledCfg.retry_interval}

\* self.retry_state as the profiles describe it
RetryStateOf(p) ==
    [x \in {y \in ServiceSet : p[y].entry # NoEntry} |-> p[x].entry]

\* two passes that agree on the role, the clock and everything about service
\* s, and differ at will in the other services
Trials ==
    {tr \in [s : ServiceSet, should_run : BOOLEAN, t : TrialTimes,
             a : [ServiceSet -> Profiles], b : [ServiceSet -> Profiles]] :
        tr.b[tr.s] = tr.a[tr.s]}

InitReconcile ==
    /\ InitDaemon
    /\ configFile = ConfigFileOf(InstalledConfig)
    /\ dirExists
    /\ apiResponses = NoResponses
    /\ roleResult = "unset"
    /\ apiResult = "unset"
    /\ trial \in Trials
    /\ trialResult = NoTrial

RunTrial ==
    /\ trialResult = NoTrial
    /\ trialResult' =
          [a |-> manage_services(RetryStateOf(trial.a), trial.should_run, trial.t,
                                 InstalledCfg, trial.a),
           b |-> manage_services(RetryStateOf(trial.b), trial.should_run, trial.t,
                                 InstalledCfg, trial.b)]
    /\ UNCHANGED <<pc, now, memory, world, files, outcomes, history, readerSaw,
                   apiResponses, roleResult, apiResult, trial>>

NextReconcile == RunTrial

SpecReconcile == InitReconcile /\ [][NextReconcile]_vars

----------------------------------------------------------------------------
(* Properties *)

\* the step is one iteration of manage_services
ManageStep == pc = "services" /\ pc' \in {"services", "publish"}

\* the step issues systemctl start / stop for service s
StartCalled(s) ==
    ManageStep /\ s = services[svcIdx] /\ calls'[s] = Append(calls[s], "start")

AttemptsOf(rs, s) == IF s \in DOMAIN rs THEN rs[s].attempts ELSE 0

\* C1 (retry monotonicity), within one run of the daemon: while the role is
\* active and a service is seen stopped with every start failing, each
\* eligible cycle (first attempt, or now >= next_attempt) calls start once and
\* raises attempts by one; a retry comes no sooner than retry_interval after
\* the attempt before it; once attempts equals max_retries the service is
\* permanently failed and no cycle calls start, so the number of start calls
\* since the service was last seen running is attempts and never exceeds
\* max_retries.
C1_Counts ==
    config = NoConfig \/
    \A s \in ServiceSet :
        /\ started[s] <= config.max_retries
        /\ AttemptsOf(retry_state, s) = started[s]
        /\ s \in DOMAIN retry_state =>
              (retry_state[s].failed_permanently <=> started[s] = config.max_retries)

C1_Step ==
    \A s \in ServiceSet :
        (ManageStep /\ s = services[svcIdx] /\ Truthy(has_slurmclient_role)
            /\ ~running[s])
        => LET a == AttemptsOf(retry_state, s) IN
           IF a < config.max_retries /\ (a = 0 \/ now >= retry_state[s].next_attempt)
           THEN /\ StartCalled(s)
                /\ running'[s] \/ AttemptsOf(retry_state', s) = a + 1
                /\ a > 0 => now >= retry_state[s].last_attempt + config.retry_interval
           ELSE calls'[s] = calls[s]

C1_RetryMonotonicity == []C1_Counts /\ [][C1_Step]_vars

\* a cycle with the role active that found a permanently failed service
\* stopped and did not call start for it
C1_Witness ==
    \E s \in DOMAIN retry_state :
        /\ pc = "sleep" /\ cycle = "completed" /\ Truthy(has_slurmclient_role)
        /\ retry_state[s].failed_permanently
        /\ started[s] = CfgMaxRetries
        /\ ~running[s] /\ calls[s] = <<>>
        /\ now > retry_state[s].last_attempt

\* C2 (unknown-role freeze): the step of a cycle that resolves the role to
\* unknown goes straight to the sleep and changes no retry state, no file and
\* no unit, and issues no call; while the role is unknown nothing was started,
\* stopped, published or saved in the cycle.
C2_Step ==
    (pc = "resolve" /\ pc' # "stopped" /\ has_slurmclient_role' = "None")
    => /\ pc' = "sleep"
       /\ UNCHANGED <<retry_state, files, running, calls, started>>

C2_Quiet ==
    (has_slurmclient_role = "None" /\ pc \in LoopPcs)
    => (calls = NoCalls /\ pub = "none" /\ saved = "none")

C2_UnknownRoleFreezes == []C2_Quiet /\ [][C2_Step]_vars

\* an unknown role right after an active one: units still running, descriptor
\* still there, a retry still pending
C2_Witness ==
    /\ cycle = "role_unknown" /\ pc = "sleep"
    /\ previous_role_status = "True"
    /\ \E s \in ServiceSet : running[s]
    /\ files[target_file].st = "complete"
    /\ \E s \in DOMAIN retry_state : retry_state[s].attempts > 0

\* C3 as claimed: within one run, a service that became permanently failed
\* gets no start call before some cycle has seen it running, whatever the role
\* does in between.
C3_Original == [][\A s \in ServiceSet : StartCalled(s) => ~pfUnobserved[s]]_vars

\* C3 as amended: within one run, a service that became permanently failed
\* gets no start call before some cycle has seen it running or some cycle has
\* resolved the role to inactive.
C3_NoStartWhileLatched == [][\A s \in ServiceSet : StartCalled(s) => ~pfLatched[s]]_vars

\* a start call for a service that failed permanently and was not seen
\* running since: a cycle with the role inactive came in between
C3_Witness ==
    \E s \in ServiceSet :
        pfUnobserved[s] /\ ~pfLatched[s] /\ calls[s] = <<"start">>

\* C4: what the retry state held before a restart holds after it, so a service
\* that was permanently failed when the daemon stopped (not seen running and
\* the role not inactive since) gets no start call from the restarted daemon.
C4_RetryStateSurvivesRestart ==
    [][\A s \in ServiceSet : StartCalled(s) => ~pfDurable[s]]_vars

\* C5: a cycle that resolved the role and could write the state file leaves a
\* complete state file whose role and retry_state equal those in memory.
C5_StateFileMatchesMemory ==
    (pc = "sleep" /\ cycle = "completed" /\ saved # "oserror")
    => /\ ParseState(files[state_file]).ok
       /\ ParseState(files[state_file]).obj.has_slurmclient_role = has_slurmclient_role
       /\ ParseState(files[state_file]).obj.retry_state = retry_state

\* C6: after an interrupt or a failed write, neither the state file nor the
\* descriptor file is truncated.
C6_NoTruncatedFile ==
    pc \in {"stopped", "sleep"}
    => /\ files[state_file].st # "truncated"
       /\ files[target_file].st # "truncated"

\* C7: with the config file absent, the constructor writes the default config
\* file, completes, and the daemon goes on into monitor_loop with the defaults.
C7_DefaultConfigCreated ==
    [][(pc = "boot" /\ configFile.st = "absent" /\ pc' # "boot")
       => /\ configFile' = ConfigFileOf(default_config)
          /\ config' = default_config
          /\ pc' = "load"]_vars

\* C8 as claimed: at the end of a completed cycle the descriptor file exists
\* exactly if the role resolved in that cycle is active.
C8_Original ==
    (pc = "sleep" /\ cycle = "completed")
    => (files[target_file].st # "absent" <=> Truthy(has_slurmclient_role))

\* C8 as amended: once publication has run in a cycle with the targets
\* directory present and no error from the write, the rename or the removal,
\* the descriptor file exists exactly if the role resolved in that cycle is
\* active.
C8_ExistsIffActive ==
    (pc \in {"save", "save_dump", "sleep"} /\ pub = "done")
    => (files[target_file].st # "absent" <=> Truthy(has_slurmclient_role))

\* the role went inactive and the descriptor of the earlier cycle was removed
C8_Witness ==
    /\ pc = "sleep" /\ cycle = "completed" /\ pub = "done"
    /\ has_slurmclient_role = "False"
    /\ files[target_file].st = "absent"
    /\ now > 0 /\ dirExists
    /\ ParseState(files[state_file]).ok

\* C9 (atomic publication): whenever the reader reads <hostname>.json it finds
\* no file or a complete descriptor, and the file itself is never truncated.
C9_ReaderNeverSeesPartial ==
    /\ readerSaw.st \in {"not read", "absent", "complete"}
    /\ files[target_file].st \in {"absent", "complete"}

\* the reader has read a complete descriptor while the publisher is in the
\* middle of writing the next one
C9_Witness ==
    /\ pc = "pub_dump"
    /\ files[TempFile(target_file)].st = "truncated"
    /\ readerSaw.st = "complete"
    /\ readerSaw = files[target_file]

\* C10: a descriptor written in a cycle with the role active has exactly one
\* entry per configured exporter port (node, cgroup, GPU), whatever the units
\* and their retry state are.
C10_OneEntryPerExporter ==
    (pc \in {"save", "save_dump", "sleep"} /\ pub = "done"
        /\ Truthy(has_slurmclient_role))
    => LET d == files[target_file].data IN
       /\ files[target_file].st = "complete"
       /\ Len(d) = 3
       /\ \E i \in 1..Len(d) :
             /\ d[i].labels.job = "node_exporter"
             /\ d[i].targets = <<[host |-> hostname, port |-> config.node_exporter_port]>>
       /\ \E i \in 1..Len(d) :
             /\ d[i].labels.job = "cgroup_exporter"
             /\ d[i].targets = <<[host |-> hostname, port |-> config.cgroup_exporter_port]>>
       /\ \E i \in 1..Len(d) :
             /\ d[i].labels.job = "gpu_exporter"
             /\ d[i].targets = <<[host |-> hostname, port |-> config.nvidia_gpu_exporter_port]>>

\* the first cycle after the role went from inactive to active, with a unit
\* that did not start
C10_Witness ==
    /\ pc = "save" /\ pub = "done"
    /\ previous_role_status = "False" /\ has_slurmclient_role = "True"
    /\ files[target_file].st = "complete"
    /\ \E s \in DOMAIN retry_state : retry_state[s].attempts = 1 /\ ~running[s]

\* the step of manage_services for s sees the unit running: at its first
\* status query, or at the second one made for a permanently failed unit
ObservedRunning(s) ==
    ManageStep /\ s = services[svcIdx]
    /\ (running[s] \/ (running'[s] /\ calls'[s] = calls[s]))

StopCalled(s) ==
    ManageStep /\ s = services[svcIdx] /\ calls'[s] = Append(calls[s], "stop")

\* C11 (recovery reset): the cycle that sees a permanently failed service
\* running sets its retry state to zero (attempts = 0, failed_permanently
\* false) and calls no start for it.
C11_RecoveryReset ==
    [][\A s \in ServiceSet :
          (ObservedRunning(s) /\ s \in DOMAIN retry_state
              /\ retry_state[s].failed_permanently)
          => /\ retry_state'[s].attempts = 0
             /\ ~retry_state'[s].failed_permanently
             /\ retry_state'[s].last_attempt = NoTime
             /\ retry_state'[s].next_attempt = NoTime
             /\ ~StartCalled(s)]_vars

\* a cycle with the role active that found a permanently failed service
\* running again and left it alone
C11_Witness ==
    \E s \in DOMAIN retry_state :
        /\ resetFrom[s] = config.max_retries /\ running[s] /\ calls[s] = <<>>
        /\ retry_state[s].attempts = 0 /\ ~retry_state[s].failed_permanently
        /\ Truthy(has_slurmclient_role)
        /\ pc = "sleep" /\ cycle = "completed"

\* C12 (stop is unconditional): a cycle with the role inactive calls stop for
\* every service it sees running, once, whatever the stop calls of earlier
\* cycles did; no cycle makes more than one call for a service.
C12_AtMostOneCall == \A s \in ServiceSet : Len(calls[s]) <= 1

C12_Step ==
    \A s \in ServiceSet :
        (ManageStep /\ s = services[svcIdx] /\ has_slurmclient_role = "False")
        => IF running[s] THEN StopCalled(s) ELSE calls'[s] = calls[s]

C12_StopEveryCycle == []C12_AtMostOneCall /\ [][C12_Step]_vars

\* a second cycle in a row whose stop call left the unit running
C12_Witness ==
    \E s \in ServiceSet :
        /\ stopFailures[s] >= 2 /\ calls[s] = <<"stop">> /\ running[s]
        /\ has_slurmclient_role = "False" /\ previous_role_status = "False"
        /\ pc = "sleep" /\ cycle = "completed"

\* C13 (no failure ends the loop): once in monitor_loop, the only step that
\* leaves the loop is the interrupt; a failed probe, an unknown role and an
\* exception inside the cycle lead to the sleep, a failed start or stop, a
\* missing targets directory and a write error let the cycle go on, a state
\* file that cannot be written leads to the sleep; and the sleep is followed
\* by the probe of the next cycle, check_interval later.
C13_Step ==
    /\ (pc \in LoopPcs /\ pc' \notin LoopPcs) => pc' = "stopped"
    /\ (cycle' # cycle /\ cycle' \in {"probe_failed", "role_unknown", "exception"})
          => pc' = "sleep"
    /\ (pub' # pub /\ pub' \in {"no_dir", "error"}) => pc' = "save"
    /\ (saved' # saved /\ saved' \in {"oserror", "typeerror"}) => pc' = "sleep"
    /\ (ManageStep /\ calls' # calls) => pc' \in {"services", "publish"}
    /\ (pc = "sleep" /\ pc' \notin {"sleep", "stopped"})
          => (pc' = "probe" /\ now' = now + config.check_interval)

C13_LoopGoesOn == [][C13_Step]_vars

\* the daemon sleeps after an exception in a cycle, in a run that has seen a
\* failed start and left a state file that cannot be read
C13_Witness ==
    /\ pc = "sleep" /\ cycle = "exception"
    /\ \E s \in ServiceSet : started[s] > 0 /\ ~running[s]
    /\ files[state_file].st = "truncated"
    /\ now + config.check_interval <= MaxTime

\* C14 (publication is idempotent): what a publication without error leaves
\* depends on the role and the configuration only, not on what was there
\* before, so a second publication for the same role and configuration leaves
\* what the first one left: with the role active the descriptor of the
\* configuration and no temp file, with the role inactive no descriptor;
\* removing a descriptor that is not there changes nothing and is no error;
\* with the targets directory missing no file changes and no error is raised.
C14_Result ==
    (pc = "save" /\ pub = "done")
    => IF Truthy(has_slurmclient_role)
       THEN /\ files[target_file] = DescriptorDoc(config)
            /\ files[TempFile(target_file)] = AbsentFile
       ELSE files[target_file] = AbsentFile

C14_Step ==
    /\ (pc = "pub_rename" /\ pub' = "done" /\ files[target_file] = DescriptorDoc(config))
          => files'[target_file] = files[target_file]
    /\ (pc = "pub_remove" /\ pc' = "save" /\ files[target_file] = AbsentFile)
          => (pub' = "done" /\ files' = files)
    /\ (pc = "publish" /\ pc' # "stopped" /\ ~dirExists)
          => (pub' = "no_dir" /\ pc' = "save" /\ files' = files)

C14_PublicationIdempotent == []C14_Result /\ [][C14_Step]_vars

\* a publication for the active role has run, in a cycle that follows a
\* completed cycle for the active role, and left the descriptor and no temp
\* file
C14_Witness ==
    /\ pc = "save" /\ pub = "done" /\ now > 0
    /\ previous_role_status = "True" /\ has_slurmclient_role = "True"
    /\ ParseState(files[state_file]).ok
    /\ files[target_file] = DescriptorDoc(config)
    /\ files[TempFile(target_file)] = AbsentFile

\* the records of an inventory whose hostname is the local one, and what the
\* first of them says about the slurmclient role
HostRecords(inv) == {k \in 1..Len(inv) : inv[k].hostname = hostname}

RoleInInventory(inv) ==
    LET k == CHOOSE k \in HostRecords(inv) : \A j \in HostRecords(inv) : k <= j
    IN PyBool(\E r \in 1..Len(inv[k].roles) : Lower(inv[k].roles[r]) = "slurmclient")

\* the endpoints that answer HTTP 200 with a parseable inventory
Answering(resp) == {i \in 1..Len(resp) : resp[i].kind = "ok"}

First(S) == CHOOSE i \in S : \A j \in S : i <= j

\* C15 as claimed: the result is that of the first endpoint that answers HTTP
\* 200 with a parseable inventory: the role of the local host's record, unknown
\* if that inventory has no record of the local host; unknown if no endpoint
\* answers so.
C15_Original ==
    roleResult # "unset"
    => roleResult =
          IF Answering(apiResponses) = {} THEN "None"
          ELSE LET inv == apiResponses[First(Answering(apiResponses))].devices
               IN IF HostRecords(inv) = {} THEN "None" ELSE RoleInInventory(inv)

\* C15 as amended: the result is that of the first endpoint, in list order,
\* that answers HTTP 200 with a parseable inventory holding a record of the
\* local host; an endpoint whose inventory has no such record is passed over
\* like one that fails; unknown if no endpoint answers so.
C15_FirstInventoryWithHost ==
    roleResult # "unset"
    => LET good == {i \in Answering(apiResponses) :
                       HostRecords(apiResponses[i].devices) # {}}
       IN roleResult =
             IF good = {} THEN "None"
             ELSE RoleInInventory(apiResponses[First(good)].devices)

\* the first endpoint answers with an inventory without the local host, the
\* second with one that has it, and the call returns what the second says
C15_Witness ==
    /\ roleResult = "True"
    /\ apiResponses[1].kind = "ok"
    /\ HostRecords(apiResponses[1].devices) = {}
    /\ Len(apiResponses[1].devices) > 0
    /\ apiResponses[2].kind = "ok"
    /\ HostRecords(apiResponses[2].devices) # {}

\* C16 (order of the phases): a start or stop call is made only in the
\* services phase of a cycle whose probe succeeded and whose role is resolved,
\* before anything is published or saved; the descriptor file and its temp
\* file change only after every service has been reconciled and before the
\* state file is written; the state file changes only after publication has
\* run; and a cycle completes only after save_state has run.
C16_Step ==
    /\ (calls' # calls /\ calls' # NoCalls)
          => /\ pc = "services" /\ cycle = "running"
             /\ has_slurmclient_role \in {"True", "False"}
             /\ pub = "none" /\ saved = "none"
             /\ files[state_file] = files'[state_file]
    /\ (files'[target_file] # files[target_file]
            \/ files'[TempFile(target_file)] # files[TempFile(target_file)])
          => /\ reconciled = ServiceSet /\ cycle = "running"
             /\ saved = "none" /\ files'[state_file] = files[state_file]
    /\ files'[state_file] # files[state_file]
          => /\ reconciled = ServiceSet /\ cycle = "running"
             /\ pub # "none"
    /\ (cycle' = "completed" /\ cycle # "completed")
          => (saved' # "none" /\ pub # "none" /\ reconciled = ServiceSet /\ pc' = "sleep")

C16_PhaseOrder == [][C16_Step]_vars

\* a cycle that ran every phase: a unit started, the descriptor published,
\* the state saved
C16_Witness ==
    /\ pc = "sleep" /\ cycle = "completed"
    /\ reconciled = ServiceSet
    /\ \E s \in ServiceSet : calls[s] = <<"start">>
    /\ pub = "done" /\ files[target_file].st = "complete"
    /\ saved = "ok" /\ files[state_file].st = "complete"

\* C17 (failed probe): the probe fails when no headnode is configured, when
\* the certificate or the key is missing and when no endpoint answers HTTP
\* 200; the step of a failed probe goes to the sleep and changes no role, no
\* retry state, no file and no unit; nothing is called, published or saved in
\* the cycle; the next cycle starts check_interval later.
C17_ProbeFails ==
    config = NoConfig \/
    \A certs_exist \in BOOLEAN,
       resp \in [1..Len(config.bcm_headnodes) -> ProbeResponses] :
        (Len(config.bcm_headnodes) = 0 \/ ~certs_exist
            \/ \A i \in 1..Len(resp) : resp[i] # "http200")
        => ~test_bcm_connectivity(config.bcm_headnodes, certs_exist, resp)

C17_Quiet ==
    cycle = "probe_failed"
    => /\ pc = "sleep"
       /\ calls = NoCalls /\ pub = "none" /\ saved = "none" /\ reconciled = {}

C17_Step ==
    /\ (pc = "probe" /\ cycle' = "probe_failed")
          => /\ pc' = "sleep"
             /\ UNCHANGED <<has_slurmclient_role, previous_role_status, retry_state,
                            files, running, calls, now>>
    /\ (pc = "sleep" /\ cycle = "probe_failed" /\ pc' = "probe")
          => now' = now + config.check_interval

C17_ProbeFailureSkipsCycle == []C17_ProbeFails /\ []C17_Quiet /\ [][C17_Step]_vars

\* a failed probe in the cycle after one with the role active: units running,
\* descriptor in place, a retry pending, all left as they were
C17_Witness ==
    /\ cycle = "probe_failed" /\ pc = "sleep"
    /\ previous_role_status = "True" /\ has_slurmclient_role = "True"
    /\ \E s \in ServiceSet : running[s]
    /\ files[target_file].st = "complete"
    /\ \E s \in DOMAIN retry_state : retry_state[s].attempts > 0

\* C18 (backoff): after a failed start at time t that leaves attempts below
\* max_retries, next_attempt is t + retry_interval; with the role active and
\* the service stopped, a cycle calls start for it exactly if its time is at or
\* after next_attempt.
C18_NextAttempt ==
    \A s \in DOMAIN retry_state :
        (retry_state[s].attempts > 0 /\ ~retry_state[s].failed_permanently)
        => /\ retry_state[s].last_attempt # NoTime
           /\ retry_state[s].next_attempt =
                 retry_state[s].last_attempt + config.retry_interval

C18_Step ==
    \A s \in ServiceSet :
        (ManageStep /\ s = services[svcIdx] /\ Truthy(has_slurmclient_role)
            /\ ~running[s] /\ s \in DOMAIN retry_state
            /\ retry_state[s].attempts > 0 /\ ~retry_state[s].failed_permanently)
        => /\ StartCalled(s) <=> now >= retry_state[s].next_attempt
           /\ (StartCalled(s) /\ ~running'[s]) => retry_state'[s].last_attempt = now
           /\ ~StartCalled(s) => retry_state'[s] = retry_state[s] \/ running'[s]

C18_Backoff == []C18_NextAttempt /\ [][C18_Step]_vars

\* a completed cycle with the role active that came before next_attempt and
\* left the stopped service alone
C18_Witness ==
    \E s \in DOMAIN retry_state :
        /\ pc = "sleep" /\ cycle = "completed" /\ Truthy(has_slurmclient_role)
        /\ retry_state[s].attempts = 1 /\ started[s] = 1
        /\ retry_state[s].last_attempt < now /\ now < retry_state[s].next_attempt
        /\ calls[s] = <<>> /\ ~running[s]

\* C19: after a completed cycle with the role inactive, the retry state of
\* every service is the zero value, whether the service ran or not and whether
\* the stop call worked or not.
C19_ZeroWhenInactive ==
    (pc = "sleep" /\ cycle = "completed" /\ has_slurmclient_role = "False")
    => \A s \in DOMAIN retry_state :
          /\ retry_state[s].attempts = 0
          /\ retry_state[s].last_attempt = NoTime
          /\ retry_state[s].next_attempt = NoTime
          /\ ~retry_state[s].failed_permanently

\* a cycle with the role inactive reset a retry state that had counted
\* attempts
C19_Witness ==
    \E s \in DOMAIN retry_state :
        /\ pc = "sleep" /\ cycle = "completed" /\ has_slurmclient_role = "False"
        /\ resetFrom[s] > 0
        /\ retry_state[s].attempts = 0

\* C20 as claimed: in any step with failed_permanently false before and
\* after, attempts does not decrease.
C20_Original ==
    [][\A s \in DOMAIN retry_state \cap DOMAIN retry_state' :
          (~retry_state[s].failed_permanently /\ ~retry_state'[s].failed_permanently)
          => retry_state'[s].attempts >= retry_state[s].attempts]_vars

\* C20 as amended: in any step of a running daemon with failed_permanently
\* false before and after, attempts stays, grows by one, or the whole retry
\* state is reset to the zero value.
C20_GrowsOrResets ==
    [][\A s \in DOMAIN retry_state \cap DOMAIN retry_state' :
          (~retry_state[s].failed_permanently /\ ~retry_state'[s].failed_permanently)
          => \/ retry_state'[s].attempts = retry_state[s].attempts
             \/ retry_state'[s].attempts = retry_state[s].attempts + 1
             \/ retry_state'[s] = ZeroRetry]_vars

\* a retry that worked: attempts went from a positive value back to zero
C20_Witness ==
    \E s \in DOMAIN retry_state :
        /\ resetFrom[s] > 0 /\ resetFrom[s] < config.max_retries
        /\ calls[s] = <<"start">> /\ running[s]
        /\ retry_state[s].attempts = 0

\* C21: a retry state that counts no attempt has no next attempt scheduled,
\* and no last attempt either: it is the zero value.
C21_NoScheduleWithoutAttempt ==
    \A s \in DOMAIN retry_state :
        retry_state[s].attempts = 0
        => /\ retry_state[s].next_attempt = NoTime
           /\ retry_state[s].last_attempt = NoTime

\* a retry state that had a next attempt scheduled was reset because the
\* service was found running, and holds no schedule any more
C21_Witness ==
    \E s \in DOMAIN retry_state :
        /\ resetFrom[s] > 0 /\ resetFrom[s] < config.max_retries
        /\ running[s] /\ calls[s] = <<>> /\ Truthy(has_slurmclient_role)
        /\ retry_state[s].attempts = 0
        /\ retry_state[s].next_attempt = NoTime

\* the retry state a pass left for service s, the zero value if it has none
EntryAfter(res, s) ==
    IF s \in DOMAIN res.retry_state THEN res.retry_state[s] ELSE ZeroRetry

\* C22: a start attempt succeeds only if the command succeeded and the unit
\* was active at the query after the settle delay: then the unit runs and the
\* retry state is the zero value; in every other case, a command that
\* succeeded with the unit not active afterwards included, the attempt is a
\* failure: attempts is one more than before, last_attempt is the time of the
\* attempt, and the retry state is not reset.
C22_UnverifiedStartFails ==
    trialResult # NoTrial
    => LET s == trial.s
           p == trial.a[s]
           after == EntryAfter(trialResult.a, s)
       IN trialResult.a.call[s] = "start"
          => IF p.start_outcome = "active_after"
             THEN /\ trialResult.a.running[s]
                  /\ after = ZeroRetry
             ELSE /\ ~trialResult.a.running[s]
                  /\ after.attempts = p.entry.attempts + 1
                  /\ after.last_attempt = trial.t
                  /\ after # ZeroRetry

\* a first start whose command succeeded and whose unit was not active
\* afterwards: one attempt is counted
C22_Witness ==
    /\ trialResult # NoTrial
    /\ trial.a[trial.s].start_outcome = "inactive_after"
    /\ trialResult.a.call[trial.s] = "start"
    /\ EntryAfter(trialResult.a, trial.s).attempts = 1
    /\ ~trialResult.a.running[trial.s]

StoredRole(f) ==
    IF f.st = "complete" THEN PyBool(f.data.has_slurmclient_role.b) ELSE "None"

\* C24 (role-change notice): the cycle logs the notice exactly if the role it
\* resolved (active or inactive) differs from the value it is compared with;
\* that value is what the state file held at startup, then the role of the
\* latest completed cycle: it changes only when the state is loaded and when a
\* cycle completes, so not in a cycle skipped for a failed probe, an unknown
\* role or an exception, and such a cycle logs no notice; the calls of
\* manage_services follow the role and the unit, whether the role changed or
\* not.
C24_NoNoticeWhenSkipped ==
    cycle \in {"probe_failed", "role_unknown", "exception"} => ~role_change_logged

C24_Step ==
    /\ (pc = "resolve" /\ pc' = "services")
          => (role_change_logged' <=> has_slurmclient_role' # previous_role_status)
    /\ (pc = "load" /\ pc' = "probe")
          => previous_role_status' = StoredRole(files[state_file])
    /\ (cycle' = "completed" /\ cycle # "completed")
          => previous_role_status' = has_slurmclient_role
    /\ (previous_role_status' # previous_role_status)
          => (pc = "load" \/ pc' = "stopped" \/ (cycle' = "completed" /\ cycle # "completed"))
    /\ \A s \in ServiceSet :
          (ManageStep /\ s = services[svcIdx])
          => /\ (has_slurmclient_role = "False" /\ running[s]) => StopCalled(s)
             /\ (has_slurmclient_role = "True" /\ ~running[s] /\ s \notin DOMAIN retry_state)
                   => StartCalled(s)

C24_RoleChangeNotice == []C24_NoNoticeWhenSkipped /\ [][C24_Step]_vars

\* a cycle that resolves the active role after the active role was saved
\* logs no notice and still starts a stopped unit
C24_Witness ==
    /\ previous_role_status = "True" /\ has_slurmclient_role = "True"
    /\ ~role_change_logged /\ cycle = "running" /\ now > 0
    /\ retry_state # EmptyRetryState
    /\ \E s \in ServiceSet : calls[s] = <<"start">>
    /\ StoredRole(files[state_file]) = "True"

\* C25: for a matched device record the result is true exactly if some
\* element of the record's role list equals 'slurmclient' ignoring case, in
\* the REST role check and in the pythoncm one alike; a role whose name only
\* contains 'slurmclient' does not count.
C25_ExactRoleName ==
    /\ roleResult # "unset"
          => LET good == {i \in Answering(apiResponses) :
                             HostRecords(apiResponses[i].devices) # {}}
             IN good # {}
                => roleResult = RoleInInventory(apiResponses[First(good)].devices)
    /\ apiResult # "unset"
          => (HostRecords(ClusterNodes(apiResponses)) # {}
                => apiResult = RoleInInventory(ClusterNodes(apiResponses)))

\* C26: load_state gives back what save_state wrote: after a save that went
\* through, loading the state file yields the role and the retry state that
\* were saved; with the state file missing or truncated it yields the empty
\* state; and the daemon goes from load_state into the loop, never crashes
\* there, with the saved role as the value to compare with, or None.
C26_RoundTrip ==
    (pc = "sleep" /\ saved = "ok")
    => LET loaded == load_state(files[state_file]) IN
       /\ loaded # EmptyDict
       /\ loaded.has_slurmclient_role = has_slurmclient_role
       /\ loaded.retry_state = retry_state

C26_EmptyWhenUnreadable ==
    files[state_file].st \in {"absent", "truncated"}
    => load_state(files[state_file]) = EmptyDict

C26_Step ==
    (pc = "load" /\ pc' # "load")
    => /\ pc' \in {"probe", "stopped"}
       /\ pc' = "probe"
             => previous_role_status' =
                   IF files[state_file].st = "complete"
                   THEN PyBool(files[state_file].data.has_slurmclient_role.b)
                   ELSE "None"

C26_LoadState == []C26_RoundTrip /\ []C26_EmptyWhenUnreadable /\ [][C26_Step]_vars

\* a daemon started over a state file that a failed save left truncated is in
\* its loop, with nothing loaded
C26_Witness ==
    /\ pc = "probe" /\ cycle = "running"
    /\ files[state_file].st = "truncated"
    /\ previous_role_status = "None"
    /\ retry_state = EmptyRetryState

\* C27: with max_retries at least 1, the attempts of a retry state are never
\* above max_retries, and the retry state is permanently failed exactly if its
\* attempts have reached max_retries.
C27_AttemptsBounded ==
    (config # NoConfig /\ config.max_retries >= 1)
    => \A s \in DOMAIN retry_state :
          /\ retry_state[s].attempts >= 0
          /\ retry_state[s].attempts <= config.max_retries
          /\ retry_state[s].failed_permanently
                <=> retry_state[s].attempts >= config.max_retries

\* the failed start that used up the last retry
C27_Witness ==
    \E s \in DOMAIN retry_state :
        /\ pc \in {"services", "publish"}
        /\ calls[s] = <<"start">> /\ ~running[s]
        /\ retry_state[s].attempts = config.max_retries
        /\ retry_state[s].failed_permanently
        /\ retry_state[s].last_attempt = now

\* C28: start is called for a service only in a cycle with the role active,
\* by the iteration that saw the unit not running, and not for a permanently
\* failed service; stop is called only in a cycle with the role inactive, by
\* the iteration that saw the unit running; each is the first call for the
\* service in the cycle, so a cycle makes at most one call per service.
C28_OneCallPerCycle ==
    \A s \in ServiceSet :
        /\ calls[s] \in {<<>>, <<"start">>, <<"stop">>}
        /\ calls[s] = <<"start">> => has_slurmclient_role = "True"
        /\ calls[s] = <<"stop">> => has_slurmclient_role = "False"

C28_Step ==
    \A s \in ServiceSet :
        /\ StartCalled(s)
              => /\ has_slurmclient_role = "True" /\ cycle = "running"
                 /\ ~running[s] /\ calls[s] = <<>>
                 /\ s \in DOMAIN retry_state => ~retry_state[s].failed_permanently
        /\ StopCalled(s)
              => /\ has_slurmclient_role = "False" /\ cycle = "running"
                 /\ running[s] /\ calls[s] = <<>>
        /\ (calls'[s] # calls[s] /\ calls'[s] # <<>>)
              => (StartCalled(s) \/ StopCalled(s))

C28_CallsFollowRoleAndStatus == []C28_OneCallPerCycle /\ [][C28_Step]_vars

\* a cycle with the role inactive stopped the units it found running and made
\* no call for the one it found stopped
C28_Witness ==
    /\ pc = "sleep" /\ cycle = "completed" /\ has_slurmclient_role = "False"
    /\ \E s \in ServiceSet : calls[s] = <<"stop">> /\ ~running[s]
    /\ \E s \in ServiceSet : calls[s] = <<>> /\ ~running[s]

\* C30: the step that ends the loop on an interrupt changes no file (the
\* descriptor is not removed, the state file is not written) and no unit, and
\* makes no call; while the daemon is stopped it makes no call either.
C30_Step ==
    (pc \in LoopPcs /\ pc' = "stopped")
    => /\ files' = files
       /\ running' = running
       /\ \A s \in ServiceSet : calls'[s] = <<>>

C30_Stopped == pc = "stopped" => calls = NoCalls

C30_InterruptLeavesAll == []C30_Stopped /\ [][C30_Step]_vars

\* no daemon is running, and the descriptor file is in place, the units are
\* running and the state file is as the interrupted save left it
C30_Witness ==
    /\ pc = "stopped"
    /\ files[target_file].st = "complete"
    /\ \E s \in ServiceSet : running[s]
    /\ files[state_file].st = "truncated"

\* the cycle in progress, or just completed, passed the probe and resolved
\* the role to active
GoodCycle ==
    /\ cycle \in {"running", "completed"}
    /\ pc \notin {"probe", "resolve"} => has_slurmclient_role = "True"

\* service s was seen running in this cycle and is left with no attempt counted
SeenRunning(s) ==
    /\ running[s] /\ s \in reconciled
    /\ AttemptsOf(retry_state, s) = 0

GivenUp(s) == s \in DOMAIN retry_state /\ retry_state[s].failed_permanently

\* the clock of the model is at its bound, the daemon sleeps, and service s
\* has no retry that is due
ClockAtBound(s) ==
    /\ config # NoConfig /\ now + config.check_interval > MaxTime
    /\ pc = "sleep"
    /\ ~(s \in DOMAIN retry_state /\ retry_state[s].attempts > 0
           /\ ~retry_state[s].failed_permanently
           /\ retry_state[s].next_attempt <= now)

\* C29: if from some cycle on every cycle passes the probe and resolves the
\* role to active, then a service that is stopped is later seen running with
\* no attempt counted, or is given up as permanently failed; no retry that is
\* due is left waiting.  (The clock of the model stops at MaxTime: a service
\* stopped when the last cycle is over, or whose retry is due after MaxTime,
\* is not waited for.)
C29_NoRetryWaitsForever ==
    (<>[]GoodCycle)
    => \A s \in ServiceSet :
          [](~running[s] => <>(SeenRunning(s) \/ GivenUp(s) \/ ClockAtBound(s)))

\* a retry that came due was made and brought the unit up
C29_Witness ==
    \E s \in ServiceSet :
        /\ GoodCycle /\ SeenRunning(s)
        /\ resetFrom[s] > 0 /\ calls[s] = <<"start">>
        /\ now >= config.retry_interval

====
